---------------------------- MODULE Spec2Model ----------------------------
(***************************************************************************)
(* Boutique work orders: the record store (clients, work orders) and the   *)
(* request handlers that change it, as a state machine.                    *)
(*                                                                         *)
(* Optional values (Python None / a value) are None == <<>> and Some(x) == *)
(* <<x>>.  A mobile number is the tuple of its ten digits.  An order       *)
(* status is the name of the OrderStatus member.                           *)
(***************************************************************************)
EXTENDS Integers, Sequences, FiniteSets, Bags, TLC

VARIABLES
    clients,    \* table "clients":     id -> row            (models.Client)
    orders,     \* table "work_orders": id -> row            (models.WorkOrder)
    result,     \* the response to the last request served
    inflight    \* bag of the requests between their read and their write (SpecConc)

vars == <<clients, orders, result, inflight>>

-----------------------------------------------------------------------------
\* Bounds of the model.
MaxClients == 2      \* client ids are 1..MaxClients
MaxOrders == 2       \* work order ids are 1..MaxOrders
MaxInflight == 2     \* requests in flight at once (SpecConc)

\* The current time, fixed: datetime.now() and the store's func.now().
Now == 2

None == <<>>
Some(x) == <<x>>

\* Python truthiness of an Optional[int]: None and 0 are falsy.
TruthyInt(o) == o # None /\ o[1] # 0

\* Mutant of TruthyStr: every text counts as empty.
TruthyStrNever(o) == FALSE

\* Python truthiness of an Optional[str]: None is falsy (the schemas reject
\* the empty string: min_length=1, pattern ^\d{10}$).
TruthyStr(o) == o # None

OrderStatus ==
    {"ORDER_PLACED", "STARTED", "FINISHED",
     "DELIVERED_FULLY_PAID", "DELIVERED_PAYMENT_PENDING"}

\* models.OrderStatus: the value of each member.  "--" stands for the en dash
\* (U+2013) of the fifth value, which is not the hyphen of the fourth.
StatusValue(s) ==
    CASE s = "ORDER_PLACED" -> "Order Placed"
      [] s = "STARTED" -> "Started"
      [] s = "FINISHED" -> "Finished"
      [] s = "DELIVERED_FULLY_PAID" -> "Delivered - Fully Paid"
      [] s = "DELIVERED_PAYMENT_PENDING" -> "Delivered -- Payment Pending"

\* Two of the sample data's mobile numbers.
Mobile1 == <<9, 8, 7, 6, 5, 4, 3, 2, 1, 0>>
Mobile2 == <<9, 8, 7, 6, 5, 4, 3, 2, 1, 1>>
Mobiles == {Mobile1, Mobile2}

ClientIds == 1 .. MaxClients
OrderIds == 1 .. MaxOrders

SetMax(S) == CHOOSE m \in S : \A x \in S : x <= m

\* The id the store gives the next inserted row: an Integer primary key of
\* SQLite is the rowid, one more than the largest rowid in the table.
NextId(table) == IF DOMAIN table = {} THEN 1 ELSE SetMax(DOMAIN table) + 1

Insert(table, id, row) == [i \in DOMAIN table \cup {id} |->
                              IF i = id THEN row ELSE table[i]]

Remove(table, ids) == [i \in DOMAIN table \ ids |-> table[i]]

EmptyTable == [i \in {} |-> None]

\* The response to a request: the operation, its outcome, the id of the row
\* it returns (0 when it returns none), and the branch that chose the order's
\* client in create_work_order ("" elsewhere).
Response(op, kind, id, via) == [op |-> op, kind |-> kind, id |-> id, via |-> via]

-----------------------------------------------------------------------------
\* crud.py: queries

get_client(client_id) ==
    IF client_id \in DOMAIN clients THEN Some(client_id) ELSE None

\* Mutant of get_client_by_mobile: the lookup never matches.
get_client_by_mobile_miss(mobile_number) == None

\* .first() of the rows with that mobile number (the lowest rowid).
get_client_by_mobile(mobile_number) ==
    LET hits == {i \in DOMAIN clients : clients[i].mobile_number = mobile_number}
    IN IF hits = {} THEN None
       ELSE Some(CHOOSE i \in hits : \A j \in hits : i <= j)

get_work_order(order_id) ==
    IF order_id \in DOMAIN orders THEN Some(order_id) ELSE None

get_work_orders_by_client(client_id) ==
    {o \in DOMAIN orders : orders[o].client_id = client_id}

-----------------------------------------------------------------------------
\* The store's constraints.

\* Mutant of UniqueMobileOk: the column carries no unique constraint.
UniqueMobileUnchecked(id, mobile_number) == TRUE

\* clients.mobile_number is UNIQUE: an INSERT or UPDATE that would give row
\* `id` a mobile number another row holds raises IntegrityError.
UniqueMobileOk(id, mobile_number) ==
    \A i \in DOMAIN clients \ {id} : clients[i].mobile_number # mobile_number

-----------------------------------------------------------------------------
\* Request payloads.

\* schemas.ClientCreate
ClientCreates ==
    {[name |-> "Priya", mobile_number |-> m, email |-> Some("priya@email.com"),
      address |-> Some("MG Road")] : m \in Mobiles}

\* schemas.ClientUpdate after .dict(exclude_unset=True): the supplied fields.
ClientUpdates ==
    {[mobile_number |-> m] : m \in Mobiles}
    \cup {[name |-> "Meera", email |-> Some("meera@email.com"),
           address |-> Some("Commercial Street")]}

\* models.Client row of a ClientCreate payload.
ClientRow(c) ==
    [name |-> c.name, mobile_number |-> c.mobile_number,
     email |-> c.email, address |-> c.address]

\* Mutant of SetAttrs: a status of DELIVERED_FULLY_PAID also clears the dues.
SetAttrsClearingDues(row, update_data) ==
    [f \in DOMAIN row |->
        IF f \in DOMAIN update_data THEN update_data[f]
        ELSE IF /\ f = "due_cleared"
                /\ "status" \in DOMAIN update_data
                /\ update_data["status"] = "DELIVERED_FULLY_PAID"
        THEN TRUE
        ELSE row[f]]

\* for field, value in update_data.items(): setattr(row, field, value)
SetAttrs(row, update_data) ==
    [f \in DOMAIN row |-> IF f \in DOMAIN update_data THEN update_data[f] ELSE row[f]]

-----------------------------------------------------------------------------
\* routers/clients.py, each handler run to completion.

\* POST /clients/
create_client(c) ==
    IF get_client_by_mobile(c.mobile_number) # None
    THEN /\ result' = Response("create_client", "DuplicateKey", 0, "")
         /\ UNCHANGED <<clients, orders, inflight>>
    ELSE IF ~UniqueMobileOk(0, c.mobile_number)
    THEN \* IntegrityError from crud.create_client's db.commit()
         /\ result' = Response("create_client", "DataAccessFailure", 0, "")
         /\ UNCHANGED <<clients, orders, inflight>>
    ELSE /\ NextId(clients) \in ClientIds
         /\ clients' = Insert(clients, NextId(clients), ClientRow(c))
         /\ result' = Response("create_client", "ok", NextId(clients), "")
         /\ UNCHANGED <<orders, inflight>>

\* Mutant of AnotherClientHasMobile: the holder's id is not compared with
\* client_id.
AnyClientHasMobile(client_id, client_update) ==
    /\ "mobile_number" \in DOMAIN client_update
    /\ \E i \in DOMAIN clients :
          clients[i].mobile_number = client_update.mobile_number

\* "If mobile number is being updated, check for duplicates": a client
\* other than client_id holds the supplied number.
AnotherClientHasMobile(client_id, client_update) ==
    LET existing == IF "mobile_number" \in DOMAIN client_update
                    THEN get_client_by_mobile(client_update.mobile_number)
                    ELSE None
    IN existing # None /\ existing # Some(client_id)

\* PUT /clients/{client_id}
update_client(client_id, client_update) ==
    IF AnotherClientHasMobile(client_id, client_update)
       THEN /\ result' = Response("update_client", "DuplicateKey", 0, "")
            /\ UNCHANGED <<clients, orders, inflight>>
    ELSE  IF get_client(client_id) = None
       THEN /\ result' = Response("update_client", "NotFound", 0, "")
            /\ UNCHANGED <<clients, orders, inflight>>
       ELSE IF ~UniqueMobileOk(client_id,
                               SetAttrs(clients[client_id], client_update).mobile_number)
       THEN \* IntegrityError from crud.update_client's db.commit()
            /\ result' = Response("update_client", "DataAccessFailure", 0, "")
            /\ UNCHANGED <<clients, orders, inflight>>
       ELSE /\ clients' = [clients EXCEPT
                              ![client_id] = SetAttrs(@, client_update)]
            /\ result' = Response("update_client", "ok", client_id, "")
            /\ UNCHANGED <<orders, inflight>>

\* Mutant of NotNullViolated: the store accepts the delete (a nullable
\* client_id).
NotNullIgnored(children) == FALSE

\* work_orders.client_id is NOT NULL.  Client.work_orders has no delete
\* cascade, so deleting a client makes the session set client_id = NULL on
\* each of its work orders first, which the constraint refuses.
NotNullViolated(children) == children # {}

\* DELETE /clients/{client_id}
delete_client(client_id) ==
    IF get_client(client_id) = None
    THEN /\ result' = Response("delete_client", "NotFound", 0, "")
         /\ UNCHANGED <<clients, orders, inflight>>
    ELSE IF NotNullViolated(get_work_orders_by_client(client_id))
    THEN \* IntegrityError from db.commit(); the session is rolled back
         /\ result' = Response("delete_client", "DataAccessFailure", 0, "")
         /\ UNCHANGED <<clients, orders, inflight>>
    ELSE /\ clients' = Remove(clients, {client_id})
         /\ result' = Response("delete_client", "ok", client_id, "")
         /\ UNCHANGED <<orders, inflight>>

-----------------------------------------------------------------------------
\* Work order payloads.

\* The order fields of schemas.WorkOrderBase.  Dates are integers around Now;
\* amounts are small non-negative integers (Field(..., ge=0)).
OrderData1 ==
    [expected_delivery_date |-> 3, description |-> Some("Custom saree blouse"),
     notes |-> None, status |-> "ORDER_PLACED", advance_paid |-> 0,
     total_estimate |-> 2, actual_amount |-> 0, due_cleared |-> FALSE]

OrderData2 ==
    [expected_delivery_date |-> 1, description |-> None,
     notes |-> Some("urgent order"), status |-> "STARTED", advance_paid |-> 1,
     total_estimate |-> 2, actual_amount |-> 3, due_cleared |-> FALSE]

OrderDatas == {OrderData1}

\* The client fields of schemas.WorkOrderCreate: a client_id that is absent,
\* zero, stored or not stored, with no, partial or full client details.
ClientParts ==
    {[client_id |-> i, client_name |-> n, client_mobile |-> m,
      client_email |-> None, client_address |-> None] :
        i \in {None, Some(0)} \cup {Some(k) : k \in ClientIds},
        n \in {None}, m \in {None} \cup {Some(x) : x \in Mobiles}}
    \cup
    {[client_id |-> i, client_name |-> Some("Meera"), client_mobile |-> m,
      client_email |-> Some("meera@email.com"),
      client_address |-> Some("Commercial Street")] :
        i \in {None, Some(0)} \cup {Some(k) : k \in ClientIds},
        m \in {None} \cup {Some(x) : x \in Mobiles}}

\* schemas.WorkOrderCreate
WorkOrderCreates == {c @@ d : c \in ClientParts, d \in OrderDatas}

\* schemas.WorkOrderUpdate after .dict(exclude_unset=True): the supplied fields.
WorkOrderUpdates == {[status |-> "STARTED"]}

\* WorkOrderCreate.validate_client_info: without a client_id both the name
\* and the mobile are required.
validate_client_info(w) ==
    w.client_id = None => (TruthyStr(w.client_name) /\ TruthyStr(w.client_mobile))

\* schemas.ClientCreate(name=..., mobile_number=...) accepts the details:
\* both are required fields.
ClientCreateValid(w) == w.client_name # None /\ w.client_mobile # None

\* The ClientCreate built from the order's client details.
ClientData(w) ==
    [name |-> w.client_name[1], mobile_number |-> w.client_mobile[1],
     email |-> w.client_email, address |-> w.client_address]

\* Mutant of ByMobile: the existing client is not looked up.
ByMobileAlwaysNew(w, reused, created) ==
    [err |-> FALSE, new |-> TRUE, id |-> NextId(clients), via |-> created]

\* "Check if client with this mobile already exists": reuse it, else create.
ByMobile(w, reused, created) ==
    LET existing == get_client_by_mobile(w.client_mobile[1])
    IN IF existing # None
       THEN [err |-> FALSE, new |-> FALSE, id |-> existing[1], via |-> reused]
       ELSE [err |-> FALSE, new |-> TRUE, id |-> NextId(clients), via |-> created]

\* Mutant of ClientFor: a supplied client_id is used without checking that
\* the client exists.
ClientForUnchecked(w) ==
    IF TruthyInt(w.client_id)
    THEN [err |-> FALSE, new |-> FALSE, id |-> w.client_id[1], via |-> "client_id"]
    ELSE IF w.client_name # None /\ w.client_mobile # None
         THEN [err |-> FALSE, new |-> TRUE, id |-> NextId(clients),
               via |-> "mobile_created"]
         ELSE [err |-> TRUE, new |-> FALSE, id |-> 0, via |-> "ValidationError"]

\* crud.create_work_order, "Handle client creation or retrieval": the client
\* the order will reference, whether it has to be inserted, or the error.
ClientFor(w) ==
    IF TruthyInt(w.client_id)
    THEN IF get_client(w.client_id[1]) # None
         THEN [err |-> FALSE, new |-> FALSE, id |-> w.client_id[1], via |-> "client_id"]
         ELSE IF TruthyStr(w.client_name) /\ TruthyStr(w.client_mobile)
         THEN ByMobile(w, "fallback_reused", "fallback_created")
         ELSE [err |-> TRUE, new |-> FALSE, id |-> 0, via |-> "ValueError"]
    ELSE IF ClientCreateValid(w)
         THEN ByMobile(w, "mobile_reused", "mobile_created")
         ELSE [err |-> TRUE, new |-> FALSE, id |-> 0, via |-> "ValidationError"]

\* models.WorkOrder row of a WorkOrderCreate payload.  actual_delivery_date
\* and updated_at (onupdate only) start NULL.  order_date and created_at,
\* set once by the store, are not modelled.
OrderRow(w, client_id) ==
    [client_id |-> client_id,
     expected_delivery_date |-> w.expected_delivery_date,
     actual_delivery_date |-> None,
     description |-> w.description, notes |-> w.notes, status |-> w.status,
     advance_paid |-> w.advance_paid, total_estimate |-> w.total_estimate,
     actual_amount |-> w.actual_amount, due_cleared |-> w.due_cleared,
     updated_at |-> None]

\* Where the store fails a commit of create_work_order, if it does.
Failures == {"none", "client_commit", "order_commit"}

-----------------------------------------------------------------------------
\* routers/work_orders.py, each handler run to completion.

\* POST /work-orders/ : crud.create_work_order, any exception turned into a
\* 400.  crud.create_client commits the new client before the order is
\* built; the order is committed after.
create_work_order(w, fails) ==
    LET c == ClientFor(w)
        clients1 == IF c.new THEN Insert(clients, c.id, ClientRow(ClientData(w)))
                    ELSE clients
    IN IF ~validate_client_info(w) \/ c.err
       THEN /\ result' = Response("create_work_order", "ValidationFailure", 0,
                                  IF validate_client_info(w) THEN c.via ELSE "validator")
            /\ UNCHANGED <<clients, orders, inflight>>
       ELSE IF c.new /\ (fails = "client_commit"
                         \/ ~UniqueMobileOk(0, w.client_mobile[1]))
       THEN /\ result' = Response("create_work_order", "DataAccessFailure", 0, c.via)
            /\ UNCHANGED <<clients, orders, inflight>>
       ELSE IF fails = "order_commit"
       THEN /\ c.new => c.id \in ClientIds
            /\ clients' = clients1
            /\ result' = Response("create_work_order", "DataAccessFailure", 0, c.via)
            /\ UNCHANGED <<orders, inflight>>
       ELSE /\ c.new => c.id \in ClientIds
            /\ NextId(orders) \in OrderIds
            /\ clients' = clients1
            /\ orders' = Insert(orders, NextId(orders), OrderRow(w, c.id))
            /\ result' = Response("create_work_order", "ok", NextId(orders), c.via)
            /\ UNCHANGED inflight

\* The store's onupdate=func.now(): an UPDATE is emitted, and updated_at
\* set, when an attribute's value has changed.
Touch(old, new) ==
    IF new = old THEN new ELSE [new EXCEPT !.updated_at = Some(Now)]

\* The elements of a list.
Range(list) == {list[i] : i \in DOMAIN list}

\* Mutant of workflow_transitions: the two delivered statuses list each
\* other.
workflow_transitions_symmetric ==
    [v \in {StatusValue(s) : s \in OrderStatus} |->
        CASE v = "Order Placed" -> <<"Started">>
          [] v = "Started" -> <<"Finished">>
          [] v = "Finished" ->
                <<"Delivered - Fully Paid", "Delivered -- Payment Pending">>
          [] v = "Delivered -- Payment Pending" -> <<"Delivered - Fully Paid">>
          [] v = "Delivered - Fully Paid" -> <<"Delivered -- Payment Pending">>]

\* routers/status.py, get_next_status_options: the dict workflow_transitions,
\* each option reduced to its "value".
workflow_transitions ==
    [v \in {StatusValue(s) : s \in OrderStatus} |->
        CASE v = "Order Placed" -> <<"Started">>
          [] v = "Started" -> <<"Finished">>
          [] v = "Finished" ->
                <<"Delivered - Fully Paid", "Delivered -- Payment Pending">>
          [] v = "Delivered -- Payment Pending" -> <<"Delivered - Fully Paid">>
          [] v = "Delivered - Fully Paid" -> <<>>]

\* Mutant of get_next_status_options: a fully paid order can be placed
\* again.
get_next_status_options_reopening(current_status) ==
    IF current_status = "Delivered - Fully Paid" THEN <<"Order Placed">>
    ELSE IF current_status \in DOMAIN workflow_transitions
    THEN workflow_transitions[current_status]
    ELSE <<>>

\* workflow_transitions.get(current_status, [])
get_next_status_options(current_status) ==
    IF current_status \in DOMAIN workflow_transitions
    THEN workflow_transitions[current_status]
    ELSE <<>>

\* Mutant of crud_update_work_order: a status the workflow does not list
\* after the stored one is refused and the row left as it is.
crud_update_work_order_workflow(row, update_data) ==
    IF /\ "status" \in DOMAIN update_data
       /\ StatusValue(update_data["status"])
              \notin Range(get_next_status_options(StatusValue(row.status)))
    THEN row
    ELSE Touch(row, SetAttrs(row, update_data))

\* crud.update_work_order on a stored row.
crud_update_work_order(row, update_data) == Touch(row, SetAttrs(row, update_data))

\* PUT /work-orders/{order_id}
update_work_order(order_id, work_order_update) ==
    IF get_work_order(order_id) = None
    THEN /\ result' = Response("update_work_order", "NotFound", 0, "")
         /\ UNCHANGED <<clients, orders, inflight>>
    ELSE /\ orders' = [orders EXCEPT
                         ![order_id] = crud_update_work_order(@, work_order_update)]
         /\ result' = Response("update_work_order", "ok", order_id, "")
         /\ UNCHANGED <<clients, inflight>>

\* DELETE /work-orders/{order_id}
delete_work_order(order_id) ==
    IF get_work_order(order_id) = None
    THEN /\ result' = Response("delete_work_order", "NotFound", 0, "")
         /\ UNCHANGED <<clients, orders, inflight>>
    ELSE /\ orders' = Remove(orders, {order_id})
         /\ result' = Response("delete_work_order", "ok", order_id, "")
         /\ UNCHANGED <<clients, inflight>>

-----------------------------------------------------------------------------
\* routers/admin.py

\* DELETE /admin/reset-database
reset_database ==
    /\ orders' = EmptyTable
    /\ clients' = EmptyTable
    /\ result' = Response("reset_database", "ok", 0, "")
    /\ UNCHANGED inflight

\* DELETE /admin/delete-all-work-orders
delete_all_work_orders ==
    /\ orders' = EmptyTable
    /\ result' = Response("delete_all_work_orders", "ok", 0, "")
    /\ UNCHANGED <<clients, inflight>>

\* DELETE /admin/delete-all-clients : the work orders first, then the clients
delete_all_clients ==
    /\ orders' = EmptyTable
    /\ clients' = EmptyTable
    /\ result' = Response("delete_all_clients", "ok", 0, "")
    /\ UNCHANGED inflight

-----------------------------------------------------------------------------
\* The store after create_tables(): both tables empty.  (Startup then seeds
\* an empty store through crud.create_client and crud.create_work_order, the
\* operations below.)
Init ==
    /\ clients = EmptyTable
    /\ orders = EmptyTable
    /\ result = Response("startup", "ok", 0, "")
    /\ inflight = EmptyBag

\* Requests served one at a time, the store never failing.
Next ==
    \/ \E c \in ClientCreates : create_client(c)
    \/ \E i \in 1 .. MaxClients + 1, u \in ClientUpdates : update_client(i, u)
    \/ \E i \in 1 .. MaxClients + 1 : delete_client(i)
    \/ \E w \in WorkOrderCreates : create_work_order(w, "none")
    \/ \E o \in 1 .. MaxOrders + 1, u \in WorkOrderUpdates : update_work_order(o, u)
    \/ \E o \in 1 .. MaxOrders + 1 : delete_work_order(o)
    \/ reset_database
    \/ delete_all_work_orders
    \/ delete_all_clients

Spec == Init /\ [][Next]_vars

-----------------------------------------------------------------------------
\* Claims checked under Spec.

\* C1: referential integrity: in every reachable state every stored work
\* order's client_id is the id of a stored client.
C1_ReferentialIntegrity ==
    \A o \in DOMAIN orders : orders[o].client_id \in DOMAIN clients

\* C1 witness: a client has just been deleted while work orders are stored.
C1_Witness ==
    /\ result.op = "delete_client" /\ result.kind = "ok"
    /\ DOMAIN orders # {}

\* C2 (as claimed): deleting a stored client succeeds whatever the number of
\* its work orders, removes the client and its work orders, and leaves every
\* other client and every other client's work orders unchanged.
C2_DeleteClientCascades ==
    [][\A c \in DOMAIN clients :
          delete_client(c) =>
              /\ result'.kind = "ok"
              /\ DOMAIN clients' = DOMAIN clients \ {c}
              /\ \A i \in DOMAIN clients' : clients'[i] = clients[i]
              /\ DOMAIN orders' = {o \in DOMAIN orders : orders[o].client_id # c}
              /\ \A o \in DOMAIN orders' : orders'[o] = orders[o]]_vars

\* What the code does instead: a client that has work orders is not deleted
\* (the store refuses the commit) and nothing changes; a client without work
\* orders is deleted.
C2_DeleteClientRefused ==
    [][\A c \in DOMAIN clients :
          delete_client(c) =>
              IF \E o \in DOMAIN orders : orders[o].client_id = c
              THEN /\ result'.kind = "DataAccessFailure"
                   /\ clients' = clients /\ orders' = orders
              ELSE /\ result'.kind = "ok"
                   /\ clients' = Remove(clients, {c}) /\ orders' = orders]_vars

\* C4: creating a client whose mobile number a stored client holds fails with
\* DuplicateKey, and clients and work orders are unchanged.
C4_CreateClientDuplicate ==
    [][\A c \in ClientCreates :
          ((\E i \in DOMAIN clients : clients[i].mobile_number = c.mobile_number)
           /\ create_client(c))
          => /\ result'.op = "create_client"
             /\ result'.kind = "DuplicateKey"
             /\ clients' = clients /\ orders' = orders]_vars

\* C4 witness: a create has been refused as a duplicate while a client and a
\* work order are stored.
C4_Witness ==
    /\ result.op = "create_client" /\ result.kind = "DuplicateKey"
    /\ DOMAIN clients # {} /\ DOMAIN orders # {}

\* C5: updating stored client c's mobile number to one held by another
\* stored client fails with DuplicateKey and changes nothing; updating it to
\* the number c holds, or to a number no client holds, succeeds and c holds
\* the supplied number.
C5_UpdateClientMobile ==
    [][\A c \in DOMAIN clients : \A u \in ClientUpdates :
          ("mobile_number" \in DOMAIN u /\ update_client(c, u))
          => IF \E j \in DOMAIN clients \ {c} :
                    clients[j].mobile_number = u.mobile_number
             THEN /\ result'.kind = "DuplicateKey"
                  /\ clients' = clients /\ orders' = orders
             ELSE /\ result'.kind = "ok"
                  /\ clients'[c].mobile_number = u.mobile_number]_vars

\* C5 witness: an update has been refused as a duplicate with two clients
\* stored.
C5_Witness ==
    /\ result.op = "update_client" /\ result.kind = "DuplicateKey"
    /\ Cardinality(DOMAIN clients) >= 2

\* C7: creating a work order without a client_id resolves the client by
\* mobile number.  If a client holds the supplied mobile, no client is added,
\* every client is unchanged and the new order references that client; if
\* none does, exactly one client, holding that mobile, is added, and the new
\* order references it.
C7_ResolveByMobile ==
    [][\A w \in WorkOrderCreates :
          (w.client_id = None /\ w.client_name # None /\ w.client_mobile # None
           /\ create_work_order(w, "none"))
          => LET holders == {i \in DOMAIN clients :
                                clients[i].mobile_number = w.client_mobile[1]}
                 o == result'.id
             IN /\ result'.kind = "ok"
                /\ o \notin DOMAIN orders
                /\ DOMAIN orders' = DOMAIN orders \cup {o}
                /\ IF holders # {}
                   THEN /\ clients' = clients
                        /\ orders'[o].client_id \in holders
                   ELSE LET n == orders'[o].client_id
                        IN /\ n \notin DOMAIN clients
                           /\ DOMAIN clients' = DOMAIN clients \cup {n}
                           /\ clients'[n].mobile_number = w.client_mobile[1]
                           /\ \A i \in DOMAIN clients : clients'[i] = clients[i]]_vars

\* C7 witness: an order created without a client_id references a stored
\* client found by mobile, whose name is not the one the request carried.
C7_Witness ==
    /\ result.op = "create_work_order" /\ result.kind = "ok"
    /\ result.via = "mobile_reused"
    /\ clients[orders[result.id].client_id].name = "Priya"

\* C8: creating a work order with a client_id that matches no stored client
\* and without both a client name and a client mobile fails with a
\* validation error, and no client or work order is added.
C8_MissingClientDetails ==
    [][\A w \in WorkOrderCreates :
          (/\ w.client_id # None
           /\ w.client_id[1] \notin DOMAIN clients
           /\ ~(w.client_name # None /\ w.client_mobile # None)
           /\ create_work_order(w, "none"))
          => /\ result'.op = "create_work_order"
             /\ result'.kind = "ValidationFailure"
             /\ clients' = clients /\ orders' = orders]_vars

\* C8 witness: a create naming a client id that is not stored, without full
\* client details, has been refused.
C8_Witness ==
    /\ result.op = "create_work_order" /\ result.kind = "ValidationFailure"
    /\ result.via = "ValueError"

-----------------------------------------------------------------------------
\* Claims checked under SpecFail: the store may fail a commit of
\* create_work_order (a locked or unreachable database).

NextFail ==
    \/ Next
    \/ \E w \in WorkOrderCreates, f \in Failures \ {"none"} : create_work_order(w, f)

SpecFail == Init /\ [][NextFail]_vars

\* C6 (as claimed): creating a work order is all-or-nothing: when
\* create_work_order fails, at validation or at a commit, neither a new
\* client nor a new work order is stored.
C6_CreateAllOrNothing ==
    [][(result'.op = "create_work_order" /\ result'.kind # "ok")
       => (clients' = clients /\ orders' = orders)]_vars

\* What the code does instead: a failed create stores no work order, and
\* stores the implicit client when the failure is at the order's commit.
C6_FailedCreateKeepsClient ==
    [][(result'.op = "create_work_order" /\ result'.kind # "ok")
       => /\ orders' = orders
          /\ \A i \in DOMAIN clients : i \in DOMAIN clients' /\ clients'[i] = clients[i]
          /\ Cardinality(DOMAIN clients' \ DOMAIN clients) <= 1]_vars

-----------------------------------------------------------------------------
\* Concurrent requests (SpecConc).  Every request has its own session
\* (get_db); a request that has read the store and not yet written is held
\* in `inflight`, and requests interleave between their reads and writes.
\* The store applies each commit atomically and checks its constraints then.

\* A request in flight: what it read, and what it is about to write.
Pending(op, payload, client, via) ==
    [op |-> op, payload |-> payload, client |-> client, via |-> via]

\* The server takes another request.
CanAccept == BagCardinality(inflight) < MaxInflight

Added(r) == inflight (+) SetToBag({r})

Removed(r) == inflight (-) SetToBag({r})

\* The requests issued concurrently: work order creates by mobile (new or
\* reused client), and client updates of the mobile number.
ConcWorkOrderCreates ==
    {w \in WorkOrderCreates :
        w.client_id = None /\ w.client_name # None /\ w.client_mobile # None}

ConcClientUpdates == {u \in ClientUpdates : "mobile_number" \in DOMAIN u}

\* POST /clients/, up to the lookup by mobile (routers/clients.py:37-42)
begin_create_client(c) ==
    /\ CanAccept
    /\ IF get_client_by_mobile(c.mobile_number) # None
       THEN /\ result' = Response("create_client", "DuplicateKey", 0, "")
            /\ UNCHANGED <<clients, orders, inflight>>
       ELSE /\ inflight' = Added(Pending("create_client", c, 0, ""))
            /\ UNCHANGED <<clients, orders, result>>

\* POST /clients/, crud.create_client: the INSERT and its commit
finish_create_client(r) ==
    /\ r.op = "create_client"
    /\ inflight' = Removed(r)
    /\ IF ~UniqueMobileOk(0, r.payload.mobile_number)
       THEN /\ result' = Response("create_client", "DataAccessFailure", 0, "")
            /\ UNCHANGED <<clients, orders>>
       ELSE /\ NextId(clients) \in ClientIds
            /\ clients' = Insert(clients, NextId(clients), ClientRow(r.payload))
            /\ result' = Response("create_client", "ok", NextId(clients), "")
            /\ UNCHANGED orders

\* PUT /clients/{client_id}, up to the duplicate check (routers/clients.py:97-104)
begin_update_client(client_id, client_update) ==
    /\ CanAccept
    /\ IF AnotherClientHasMobile(client_id, client_update)
       THEN /\ result' = Response("update_client", "DuplicateKey", 0, "")
            /\ UNCHANGED <<clients, orders, inflight>>
       ELSE /\ inflight' = Added(Pending("update_client", client_update, client_id, ""))
            /\ UNCHANGED <<clients, orders, result>>

\* PUT /clients/{client_id}, crud.update_client: the UPDATE and its commit
finish_update_client(r) ==
    /\ r.op = "update_client"
    /\ inflight' = Removed(r)
    /\ IF get_client(r.client) = None
       THEN /\ result' = Response("update_client", "NotFound", 0, "")
            /\ UNCHANGED <<clients, orders>>
       ELSE IF ~UniqueMobileOk(r.client,
                               SetAttrs(clients[r.client], r.payload).mobile_number)
       THEN /\ result' = Response("update_client", "DataAccessFailure", 0, "")
            /\ UNCHANGED <<clients, orders>>
       ELSE /\ clients' = [clients EXCEPT ![r.client] = SetAttrs(@, r.payload)]
            /\ result' = Response("update_client", "ok", r.client, "")
            /\ UNCHANGED orders

\* POST /work-orders/, crud.create_work_order up to the choice of the client
\* (crud.py:69-104)
begin_create_work_order(w) ==
    LET c == ClientFor(w)
    IN /\ CanAccept
       /\ IF ~validate_client_info(w) \/ c.err
          THEN /\ result' = Response("create_work_order", "ValidationFailure", 0,
                                     IF validate_client_info(w) THEN c.via ELSE "validator")
               /\ UNCHANGED <<clients, orders, inflight>>
          ELSE /\ inflight' = Added(Pending(IF c.new THEN "create_work_order/client"
                                       ELSE "create_work_order/order",
                              w, IF c.new THEN 0 ELSE c.id, c.via))
               /\ UNCHANGED <<clients, orders, result>>

\* POST /work-orders/, crud.create_client of the implicit client (crud.py:105)
commit_implicit_client(r) ==
    /\ r.op = "create_work_order/client"
    /\ IF ~UniqueMobileOk(0, r.payload.client_mobile[1])
       THEN /\ inflight' = Removed(r)
            /\ result' = Response("create_work_order", "DataAccessFailure", 0, r.via)
            /\ UNCHANGED <<clients, orders>>
       ELSE /\ NextId(clients) \in ClientIds
            /\ clients' = Insert(clients, NextId(clients), ClientRow(ClientData(r.payload)))
            /\ inflight' = Removed(r) (+)
                  SetToBag({[r EXCEPT !.op = "create_work_order/order",
                                      !.client = NextId(clients)]})
            /\ UNCHANGED <<orders, result>>

\* POST /work-orders/, the INSERT of the order and its commit (crud.py:109-121).
\* SQLite does not enforce the foreign key (no PRAGMA foreign_keys).
commit_work_order(r) ==
    /\ r.op = "create_work_order/order"
    /\ NextId(orders) \in OrderIds
    /\ inflight' = Removed(r)
    /\ orders' = Insert(orders, NextId(orders), OrderRow(r.payload, r.client))
    /\ result' = Response("create_work_order", "ok", NextId(orders), r.via)
    /\ UNCHANGED clients

NextConc ==
    \/ \E c \in ClientCreates : begin_create_client(c)
    \/ \E r \in BagToSet(inflight) : finish_create_client(r)
    \/ \E i \in ClientIds, u \in ConcClientUpdates : begin_update_client(i, u)
    \/ \E r \in BagToSet(inflight) : finish_update_client(r)
    \/ \E w \in ConcWorkOrderCreates : begin_create_work_order(w)
    \/ \E r \in BagToSet(inflight) : commit_implicit_client(r)
    \/ \E r \in BagToSet(inflight) : commit_work_order(r)

SpecConc == Init /\ [][NextConc]_vars

\* C3: mobile numbers are unique in every reachable state, also when client
\* creates, client updates and work-order creates with an implicit client
\* interleave between their lookup and their write.
C3_MobileUnique ==
    \A i \in DOMAIN clients : \A j \in DOMAIN clients :
        i # j => clients[i].mobile_number # clients[j].mobile_number

\* C3 witness: a request passed its lookup, another request stored the same
\* mobile number first, and the store refused the request's write; two
\* clients are stored.
C3_Witness ==
    /\ result.kind = "DataAccessFailure"
    /\ result.op \in {"create_client", "update_client", "create_work_order"}
    /\ Cardinality(DOMAIN clients) >= 2

-----------------------------------------------------------------------------
\* Work-order updates: one update request served on a store that holds two
\* clients and a work order under every id of OrderIds, with every status and
\* with field values that both equal and differ from the values an update
\* supplies.

\* valid_statuses = [status.value for status in models.OrderStatus]
valid_statuses == {StatusValue(s) : s \in OrderStatus}

\* schemas.WorkOrderUpdate(status=new_status): the member with that value.
StatusOfValue(v) == CHOOSE s \in OrderStatus : StatusValue(s) = v

\* The new_status strings of a request: the five values, a member's name and
\* a word that is no status.
NewStatuses == valid_statuses \cup {"STARTED", "Cancelled"}

\* routers/search.py, PUT /search/work-orders/{work_order_id}/status
update_work_order_status(work_order_id, new_status) ==
    IF new_status \notin valid_statuses
    THEN /\ result' = Response("update_work_order_status", "ValidationFailure", 0, "")
         /\ UNCHANGED <<clients, orders, inflight>>
    ELSE IF get_work_order(work_order_id) = None
    THEN /\ result' = Response("update_work_order_status", "NotFound", 0, "")
         /\ UNCHANGED <<clients, orders, inflight>>
    ELSE /\ orders' = [orders EXCEPT
                         ![work_order_id] =
                             crud_update_work_order(@, [status |-> StatusOfValue(new_status)])]
         /\ result' = Response("update_work_order_status", "ok", work_order_id, "")
         /\ UNCHANGED <<clients, inflight>>

\* The fields of schemas.WorkOrderUpdate.
UpdateFields ==
    {"expected_delivery_date", "actual_delivery_date", "description", "notes",
     "status", "advance_paid", "total_estimate", "actual_amount", "due_cleared"}

\* A schemas.WorkOrderUpdate with every field set.
FullUpdates ==
    [expected_delivery_date : {1}, actual_delivery_date : {Some(Now)},
     description : {Some("Custom saree blouse")}, notes : {Some("urgent order")},
     status : OrderStatus, advance_paid : {1}, total_estimate : {2},
     actual_amount : {3}, due_cleared : {TRUE}]

\* work_order_update.dict(exclude_unset=True): the fields the request set.
ExcludeUnset(update, set) == [f \in set |-> update[f]]

\* The sets of fields a request sets: none, one, the status and one other,
\* all.
SetFields ==
    {{}} \cup {{f} : f \in UpdateFields}
    \cup {{"status", f} : f \in UpdateFields} \cup {UpdateFields}

AllWorkOrderUpdates ==
    {ExcludeUnset(u, S) : u \in FullUpdates, S \in SetFields}

\* Stored work orders: the two sample payloads, of client 1 and of client 2,
\* in each status.
SeedRows ==
    {[OrderRow(OrderData1, 1) EXCEPT !.status = s] : s \in OrderStatus}
    \cup {[OrderRow(OrderData2, 2) EXCEPT !.status = s] : s \in OrderStatus}

SeedClients ==
    [i \in {1, 2} |->
        IF i = 1
        THEN [name |-> "Priya", mobile_number |-> Mobile1,
              email |-> Some("priya@email.com"), address |-> Some("MG Road")]
        ELSE [name |-> "Meera", mobile_number |-> Mobile2,
              email |-> Some("meera@email.com"),
              address |-> Some("Commercial Street")]]

InitWO ==
    /\ clients = SeedClients
    /\ orders \in {t \in [OrderIds -> SeedRows] :
                      \A o \in OrderIds \ {1} :
                          t[o].status \in {"FINISHED", "DELIVERED_PAYMENT_PENDING"}
                          /\ t[o].client_id = 2}
    /\ result = Response("startup", "ok", 0, "")
    /\ inflight = EmptyBag

NextWO ==
    /\ result.op = "startup"
    /\ \/ \E o \in 1 .. MaxOrders + 1, u \in AllWorkOrderUpdates :
             update_work_order(o, u)
       \/ \E o \in 1 .. MaxOrders + 1, v \in NewStatuses :
             update_work_order_status(o, v)

SpecWO == InitWO /\ [][NextWO]_vars

\* C9: status updates are not checked against the workflow: for every stored
\* work order and every status, listed after the stored one by
\* get_next_status_options or not, an update that supplies only that status
\* succeeds and stores it, through PUT /work-orders/{id} and through the
\* status endpoint of the search router.
C9_StatusUnchecked ==
    [][\A o \in DOMAIN orders, s \in OrderStatus :
          /\ update_work_order(o, [status |-> s]) =>
                 result'.kind = "ok" /\ orders'[o].status = s
          /\ update_work_order_status(o, StatusValue(s)) =>
                 result'.kind = "ok" /\ orders'[o].status = s]_vars

\* C9 witness: an update has put an order back to ORDER_PLACED, a status the
\* workflow lists after no status.
C9_Witness ==
    /\ result.op \in {"update_work_order", "update_work_order_status"}
    /\ result.kind = "ok"
    /\ \A s \in OrderStatus :
          "Order Placed" \notin Range(get_next_status_options(StatusValue(s)))
    /\ orders[result.id].status = "ORDER_PLACED"
    /\ orders[result.id].updated_at = Some(Now)

\* C10 (as claimed): an update changes only the supplied fields of the
\* addressed order; every field not supplied, every other work order and
\* every client are unchanged.
C10_OnlySuppliedFieldsChange ==
    [][\A o \in DOMAIN orders, u \in AllWorkOrderUpdates :
          update_work_order(o, u) =>
              /\ \A f \in DOMAIN orders[o] \ DOMAIN u : orders'[o][f] = orders[o][f]
              /\ DOMAIN orders' = DOMAIN orders
              /\ \A p \in DOMAIN orders \ {o} : orders'[p] = orders[p]
              /\ clients' = clients]_vars

\* C10 (amended): an update gives the supplied fields of the addressed order
\* the supplied values and sets its updated_at timestamp when one of them
\* differs from the stored value; every other field of the order (client_id,
\* due_cleared and the amounts when only status is supplied), every other
\* work order and every client are unchanged.
C10_OnlySuppliedFieldsAndUpdatedAtChange ==
    [][\A o \in DOMAIN orders, u \in AllWorkOrderUpdates :
          update_work_order(o, u) =>
              /\ \A f \in DOMAIN u : orders'[o][f] = u[f]
              /\ \A f \in DOMAIN orders[o] \ (DOMAIN u \cup {"updated_at"}) :
                    orders'[o][f] = orders[o][f]
              /\ orders'[o].updated_at =
                    IF \E f \in DOMAIN u : u[f] # orders[o][f]
                    THEN Some(Now) ELSE orders[o].updated_at
              /\ DOMAIN orders' = DOMAIN orders
              /\ \A p \in DOMAIN orders \ {o} : orders'[p] = orders[p]
              /\ clients' = clients]_vars

\* C10 witness: an update that supplied only a status has changed the status
\* of an order whose amounts are not all zero.
C10_Witness ==
    /\ result.op = "update_work_order" /\ result.kind = "ok"
    /\ orders[result.id].updated_at = Some(Now)
    /\ orders[result.id].status = "DELIVERED_FULLY_PAID"
    /\ orders[result.id].due_cleared = FALSE
    /\ orders[result.id].actual_delivery_date = None
    /\ orders[result.id].expected_delivery_date = 3
    /\ orders[result.id].advance_paid = 0
    /\ orders[result.id].total_estimate = 2
    /\ orders[result.id].actual_amount = 0
    /\ orders[result.id].client_id = 1

-----------------------------------------------------------------------------
\* Derived attributes and read-only views.

\* timedelta(days=1), in the unit of Now.
TicksPerDay == 2

\* The response to a read-only request: its input and the body it returns.
QueryResponse(op, input, body) ==
    [op |-> op, kind |-> "ok", id |-> 0, via |-> "", input |-> input, body |-> body]

\* [OrderStatus.DELIVERED_FULLY_PAID, OrderStatus.DELIVERED_PAYMENT_PENDING]
Delivered == {"DELIVERED_FULLY_PAID", "DELIVERED_PAYMENT_PENDING"}

\* models.WorkOrder.is_overdue
is_overdue(row) ==
    row.expected_delivery_date < Now /\ row.status \notin Delivered

\* models.WorkOrder.due_in_one_day
due_in_one_day(row) ==
    /\ row.expected_delivery_date <= Now + TicksPerDay
    /\ row.expected_delivery_date >= Now
    /\ row.status \notin Delivered

\* Mutant of is_active: only the fully paid status is inactive.
is_active_until_paid(row) == row.status # "DELIVERED_FULLY_PAID"

\* models.WorkOrder.is_active
is_active(row) == row.status \notin Delivered

\* Mutant of Max0: no clamp.
Max0Unclamped(x) == x

\* max(0, x)
Max0(x) == IF 0 >= x THEN 0 ELSE x

\* Mutant of remaining_amount: the larger of actual amount and estimate is
\* the amount due.
remaining_amount_of_larger(row) ==
    IF row.actual_amount > row.total_estimate
    THEN Max0(row.actual_amount - row.advance_paid)
    ELSE Max0(row.total_estimate - row.advance_paid)

\* models.WorkOrder.remaining_amount
remaining_amount(row) ==
    IF row.actual_amount > 0
    THEN Max0(row.actual_amount - row.advance_paid)
    ELSE Max0(row.total_estimate - row.advance_paid)

-----------------------------------------------------------------------------
\* routers/status.py

\* GET /status/next-options/{current_status}
get_next_status_options_endpoint(current_status) ==
    /\ result' = QueryResponse("get_next_status_options", current_status,
                               get_next_status_options(current_status))
    /\ UNCHANGED <<clients, orders, inflight>>

\* GET /status/workflow : the "transitions", "final_states" and
\* "active_states" entries of the workflow description.
get_status_workflow ==
    [transitions |->
        [v \in {StatusValue(s) : s \in OrderStatus} |->
            CASE v = "Order Placed" -> <<"Started">>
              [] v = "Started" -> <<"Finished">>
              [] v = "Finished" ->
                    <<"Delivered - Fully Paid", "Delivered -- Payment Pending">>
              [] v = "Delivered - Fully Paid" -> <<>>
              [] v = "Delivered -- Payment Pending" -> <<"Delivered - Fully Paid">>],
     final_states |-> <<"Delivered - Fully Paid">>,
     active_states |-> <<"Order Placed", "Started", "Finished",
                         "Delivered -- Payment Pending">>]

get_status_workflow_endpoint ==
    /\ result' = QueryResponse("get_status_workflow", None, get_status_workflow)
    /\ UNCHANGED <<clients, orders, inflight>>

\* GET /status/validation/{status}
validate_status(status) ==
    IF status \in {StatusValue(s) : s \in OrderStatus}
    THEN LET status_enum == CHOOSE s \in OrderStatus : StatusValue(s) = status
         IN [status |-> status, is_valid |-> TRUE,
             display_name |-> StatusValue(status_enum),
             is_final |-> status_enum \in {"DELIVERED_FULLY_PAID"},
             is_active |-> status_enum \notin Delivered]
    ELSE [status |-> status, is_valid |-> FALSE]

validate_status_endpoint(status) ==
    /\ result' = QueryResponse("validate_status", status, validate_status(status))
    /\ UNCHANGED <<clients, orders, inflight>>

\* The status strings of a request: the five values, the fifth value written
\* with a hyphen, a value in lower case, a member's name and a word that is
\* no status.
StatusInputs ==
    {StatusValue(s) : s \in OrderStatus}
    \cup {"Delivered - Payment Pending", "started", "STARTED", "Cancelled"}

-----------------------------------------------------------------------------
\* crud.py: filtered and aggregated views of the stored work orders.

\* delivery_date.replace(hour=0, minute=0, second=0, microsecond=0)
StartOfDay(t) == t - (t % TicksPerDay)

\* Python truthiness of an Optional[datetime] or Optional[OrderStatus]: only
\* None is falsy.
TruthyObject(o) == o # None

\* Mutant of overdue_only_clause: an order due exactly now is overdue.
overdue_only_clause_inclusive(row) ==
    row.expected_delivery_date <= Now /\ row.status \notin Delivered

\* get_filtered_work_orders: the clause of "if filters.overdue_only"
overdue_only_clause(row) ==
    row.expected_delivery_date < Now /\ row.status \notin Delivered

\* crud.get_filtered_work_orders: the ids of the rows the query returns.
get_filtered_work_orders(filters) ==
    {o \in DOMAIN orders :
        /\ TruthyObject(filters.delivery_date) =>
              /\ orders[o].expected_delivery_date >= StartOfDay(filters.delivery_date[1])
              /\ orders[o].expected_delivery_date
                    < StartOfDay(filters.delivery_date[1]) + TicksPerDay
        /\ TruthyObject(filters.delivery_window_start) =>
              orders[o].expected_delivery_date >= filters.delivery_window_start[1]
        /\ TruthyObject(filters.delivery_window_end) =>
              orders[o].expected_delivery_date <= filters.delivery_window_end[1]
        /\ TruthyObject(filters.status) => orders[o].status = filters.status[1]
        /\ TruthyInt(filters.client_id) => orders[o].client_id = filters.client_id[1]
        /\ filters.overdue_only => overdue_only_clause(orders[o])}

\* schemas.WorkOrderFilter as routers/work_orders.py builds it from the query
\* parameters.
WorkOrderFilters ==
    [delivery_date : {None, Some(3)},
     delivery_window_start : {None, Some(2)},
     delivery_window_end : {None, Some(2)},
     overdue_only : BOOLEAN,
     status : {None, Some("STARTED")},
     client_id : {None, Some(0), Some(1)}]

\* GET /work-orders/filter/advanced
filter_work_orders(filters) ==
    /\ result' = QueryResponse("filter_work_orders", filters,
                               get_filtered_work_orders(filters))
    /\ UNCHANGED <<clients, orders, inflight>>

\* Mutant of get_overdue_work_orders: the status is not looked at.
get_overdue_work_orders_any_status ==
    {o \in DOMAIN orders : orders[o].expected_delivery_date < Now}

\* crud.get_overdue_work_orders
get_overdue_work_orders ==
    {o \in DOMAIN orders :
        /\ orders[o].expected_delivery_date < Now
        /\ orders[o].status \notin Delivered}

\* GET /work-orders/status/overdue
get_overdue_orders ==
    /\ result' = QueryResponse("get_overdue_orders", None, get_overdue_work_orders)
    /\ UNCHANGED <<clients, orders, inflight>>

\* Mutant of get_orders_due_in_one_day: every undelivered order expected by
\* tomorrow, those expected before now included.
get_orders_due_by_tomorrow ==
    {o \in DOMAIN orders :
        /\ orders[o].expected_delivery_date <= Now + TicksPerDay
        /\ orders[o].status \notin Delivered}

\* crud.get_orders_due_in_one_day
get_orders_due_in_one_day ==
    {o \in DOMAIN orders :
        /\ orders[o].expected_delivery_date >= Now
        /\ orders[o].expected_delivery_date <= Now + TicksPerDay
        /\ orders[o].status \notin Delivered}

\* The sum of amount[o] over the work orders `ids`.
RECURSIVE SumOver(_, _)
SumOver(amount, ids) ==
    IF ids = {} THEN 0
    ELSE LET o == CHOOSE x \in ids : TRUE
         IN amount[o] + SumOver(amount, ids \ {o})

\* Mutant of pending_orders: the orders that are not fully paid by status.
pending_orders_by_status ==
    {o \in DOMAIN orders : orders[o].status # "DELIVERED_FULLY_PAID"}

\* get_dashboard_stats: pending_orders
pending_orders == {o \in DOMAIN orders : orders[o].due_cleared = FALSE}

\* get_dashboard_stats: remaining, of one pending order
dashboard_remaining(order) ==
    LET amount_due == IF order.actual_amount > 0 THEN order.actual_amount
                      ELSE order.total_estimate
    IN Max0(amount_due - order.advance_paid)

\* Mutant of get_dashboard_stats: an order counts as active until it is
\* fully paid.
get_dashboard_stats_active_until_paid ==
    [total_work_orders |-> Cardinality(DOMAIN orders),
     active_work_orders |->
        Cardinality({o \in DOMAIN orders :
                        orders[o].status # "DELIVERED_FULLY_PAID"}),
     overdue_work_orders |-> Cardinality(get_overdue_work_orders),
     orders_due_in_one_day |-> Cardinality(get_orders_due_in_one_day),
     completed_orders |->
        Cardinality({o \in DOMAIN orders : orders[o].status \in Delivered}),
     total_revenue |->
        SumOver([o \in DOMAIN orders |-> orders[o].advance_paid], DOMAIN orders),
     pending_payments |->
        SumOver([o \in DOMAIN orders |-> dashboard_remaining(orders[o])],
                pending_orders)]

\* crud.get_dashboard_stats
get_dashboard_stats ==
    [total_work_orders |-> Cardinality(DOMAIN orders),
     active_work_orders |->
        Cardinality({o \in DOMAIN orders : orders[o].status \notin Delivered}),
     overdue_work_orders |-> Cardinality(get_overdue_work_orders),
     orders_due_in_one_day |-> Cardinality(get_orders_due_in_one_day),
     completed_orders |->
        Cardinality({o \in DOMAIN orders : orders[o].status \in Delivered}),
     total_revenue |->
        SumOver([o \in DOMAIN orders |-> orders[o].advance_paid], DOMAIN orders),
     pending_payments |->
        SumOver([o \in DOMAIN orders |-> dashboard_remaining(orders[o])],
                pending_orders)]

\* Mutant of crud_get_client_summary: the amount due is summed over the
\* work orders of every client.
crud_get_client_summary_all_dues(client_id) ==
    IF get_client(client_id) = None THEN None
    ELSE LET work_orders == get_work_orders_by_client(client_id)
         IN Some([client |-> clients[client_id],
                  work_orders |-> work_orders,
                  total_orders |-> Cardinality(work_orders),
                  active_orders |->
                      Cardinality({wo \in work_orders : is_active(orders[wo])}),
                  completed_orders |->
                      Cardinality({wo \in work_orders : ~is_active(orders[wo])}),
                  total_amount_due |->
                      SumOver([wo \in DOMAIN orders |-> remaining_amount(orders[wo])],
                              {wo \in DOMAIN orders : ~orders[wo].due_cleared})])

\* crud.get_client_summary
crud_get_client_summary(client_id) ==
    IF get_client(client_id) = None THEN None
    ELSE LET work_orders == get_work_orders_by_client(client_id)
         IN Some([client |-> clients[client_id],
                  work_orders |-> work_orders,
                  total_orders |-> Cardinality(work_orders),
                  active_orders |->
                      Cardinality({wo \in work_orders : is_active(orders[wo])}),
                  completed_orders |->
                      Cardinality({wo \in work_orders : ~is_active(orders[wo])}),
                  total_amount_due |->
                      SumOver([wo \in DOMAIN orders |-> remaining_amount(orders[wo])],
                              {wo \in work_orders : ~orders[wo].due_cleared})])

\* GET /clients/summary/{client_id}
get_client_summary(client_id) ==
    /\ result' =
          IF crud_get_client_summary(client_id) = None
          THEN Response("get_client_summary", "NotFound", 0, "")
          ELSE QueryResponse("get_client_summary", client_id,
                             crud_get_client_summary(client_id)[1])
    /\ UNCHANGED <<clients, orders, inflight>>

\* GET /dashboard/summary?start_date=&end_date= : both parameters are
\* accepted and not used.
get_dashboard_summary(start_date, end_date) ==
    /\ result' = QueryResponse("get_dashboard_summary",
                               [start_date |-> start_date, end_date |-> end_date],
                               get_dashboard_stats)
    /\ UNCHANGED <<clients, orders, inflight>>

\* start_date / end_date of a request: omitted, or the day of Now.
WindowDates == {None, Some(Now)}

-----------------------------------------------------------------------------
\* routers/search.py: free-text search.  A text is the sequence of its
\* characters.

UpperCase == <<"A", "E", "K", "M", "P", "R", "S", "U">>
LowerCase == <<"a", "e", "k", "m", "p", "r", "s", "u">>

\* str.lower() and SQL lower(), on the letters the texts use
LowerChar(c) ==
    IF \E k \in DOMAIN UpperCase : UpperCase[k] = c
    THEN LowerCase[CHOOSE k \in DOMAIN UpperCase : UpperCase[k] = c]
    ELSE c

Lower(text) == [k \in DOMAIN text |-> LowerChar(text[k])]

\* The text of a mobile number.
MobileText(mobile_number) ==
    [k \in DOMAIN mobile_number |->
        <<"0", "1", "2", "3", "4", "5", "6", "7", "8", "9">>[mobile_number[k] + 1]]

\* SQL LIKE: "%" matches any run of characters, "_" any one character.
RECURSIVE Like(_, _)
Like(text, pattern) ==
    IF pattern = <<>> THEN text = <<>>
    ELSE IF Head(pattern) = "%"
    THEN Like(text, Tail(pattern)) \/ (text # <<>> /\ Like(Tail(text), pattern))
    ELSE /\ text # <<>>
         /\ Head(pattern) = "_" \/ Head(pattern) = Head(text)
         /\ Like(Tail(text), Tail(pattern))

\* func.lower(column).like(search_term), NULL matching nothing; `column` is
\* the text itself for a NOT NULL column.
ColumnLike(column, search_term) ==
    column # None /\ Like(Lower(column[1]), search_term)

\* search_work_orders: search_conditions on a work order joined to its client
search_conditions(o, search_term) ==
    \/ ColumnLike(Some(clients[orders[o].client_id].name), search_term)
    \/ ColumnLike(Some(MobileText(clients[orders[o].client_id].mobile_number)),
                  search_term)
    \/ ColumnLike(orders[o].description, search_term)
    \/ ColumnLike(orders[o].notes, search_term)

\* The rows of the query before .limit(): the join, the search conditions
\* and the status filter (a string compared with the stored member name).
search_matches(query, status) ==
    {o \in DOMAIN orders :
        /\ orders[o].client_id \in DOMAIN clients
        /\ search_conditions(o, <<"%">> \o Lower(query) \o <<"%">>)
        /\ TruthyStr(status) => orders[o].status = status[1]}

\* .order_by(created_at.desc()).limit(limit): the most recent `limit` rows;
\* created_at has the resolution of a second, so any `limit` of the matches
\* can be the ones returned.
Limited(matches, limit) ==
    {S \in SUBSET matches :
        Cardinality(S) = IF Cardinality(matches) < limit
                         THEN Cardinality(matches) ELSE limit}

\* GET /search/work-orders : formatting a row whose description is NULL
\* raises TypeError (description[:50]).
search_work_orders(query, status, limit) ==
    /\ \E results \in Limited(search_matches(query, status), limit) :
          result' =
              IF \E o \in results : orders[o].description = None
              THEN [QueryResponse("search_work_orders",
                                  [query |-> query, status |-> status, limit |-> limit],
                                  {}) EXCEPT !.kind = "InternalError"]
              ELSE QueryResponse("search_work_orders",
                                 [query |-> query, status |-> status, limit |-> limit],
                                 results)
    /\ UNCHANGED <<clients, orders, inflight>>

\* Search terms: part of a description in lower and in upper case, part of a
\* note, part of a client's name, part of a mobile number, the two LIKE
\* wildcards, and a text no row holds.
Queries ==
    {<<"s", "a", "r">>, <<"S", "A", "R">>, <<"u", "r", "g">>, <<"p", "r", "i">>,
     <<"1", "1">>, <<"_">>, <<"%">>, <<"s", "_", "r">>, <<"z">>}

\* The lists that hold every stored work order once, in an order that
\* ORDER BY expected_delivery_date allows; rows with equal dates come in
\* any order.
OrderedByDate(descending) ==
    {l \in [1 .. Cardinality(DOMAIN orders) -> DOMAIN orders] :
        /\ \A i, j \in DOMAIN l : i # j => l[i] # l[j]
        /\ \A i, j \in DOMAIN l :
              i < j =>
                  IF descending
                  THEN orders[l[i]].expected_delivery_date
                           >= orders[l[j]].expected_delivery_date
                  ELSE orders[l[i]].expected_delivery_date
                           <= orders[l[j]].expected_delivery_date}

\* Mutant of crud_get_priority_work_orders: the list is ascending whatever
\* the sort order.
crud_get_priority_work_orders_ascending(sort_order) ==
    OrderedByDate(FALSE)

\* crud.get_priority_work_orders: the lists query.all() may return.
crud_get_priority_work_orders(sort_order) ==
    IF Lower(sort_order) = <<"d", "e", "s", "c">>
    THEN OrderedByDate(TRUE)
    ELSE OrderedByDate(FALSE)

\* GET /work-orders/priority/list?sort_order= ; the parameter must match
\* ^(asc|desc)$.
get_priority_work_orders(sort_order) ==
    IF sort_order \notin {<<"a", "s", "c">>, <<"d", "e", "s", "c">>}
    THEN /\ result' = Response("get_priority_work_orders", "ValidationFailure", 0, "")
         /\ UNCHANGED <<clients, orders, inflight>>
    ELSE /\ \E work_orders \in crud_get_priority_work_orders(sort_order) :
               result' = QueryResponse("get_priority_work_orders", sort_order,
                                       [work_orders |-> work_orders,
                                        sort_order |-> sort_order,
                                        total_count |-> Len(work_orders)])
         /\ UNCHANGED <<clients, orders, inflight>>

\* The sort_order texts of a request.
SortOrders == {<<"a", "s", "c">>, <<"d", "e", "s", "c">>, <<"u", "p">>}

\* update_work_order_by_mobile: .first() of the clients whose mobile number
\* is LIKE the given text between two "%" (the lowest rowid).
first_client_like(mobile_number) ==
    LET hits == {i \in DOMAIN clients :
                    ColumnLike(Some(MobileText(clients[i].mobile_number)),
                               <<"%">> \o Lower(mobile_number) \o <<"%">>)}
    IN IF hits = {} THEN None
       ELSE Some(CHOOSE i \in hits : \A j \in hits : i <= j)

\* The response of the mobile-scoped update, with the request it answers.
MobileResponse(kind, via, mobile_number, work_order_id) ==
    [op |-> "update_work_order_by_mobile", kind |-> kind, id |-> work_order_id,
     via |-> via, input |-> <<mobile_number, work_order_id>>, body |-> None]

\* PUT /search/mobile/{mobile_number}/work-orders/{work_order_id}
update_work_order_by_mobile(mobile_number, work_order_id, work_order_update) ==
    LET client == first_client_like(mobile_number)
    IN IF client = None
       THEN /\ result' = MobileResponse("NotFound", "no_client", mobile_number,
                                        work_order_id)
            /\ UNCHANGED <<clients, orders, inflight>>
       ELSE IF get_work_order(work_order_id) = None
       THEN /\ result' = MobileResponse("NotFound", "no_work_order",
                                        mobile_number, work_order_id)
            /\ UNCHANGED <<clients, orders, inflight>>
       ELSE IF orders[work_order_id].client_id # client[1]
       THEN /\ result' = MobileResponse("NotOwner", "not_owner", mobile_number,
                                        work_order_id)
            /\ UNCHANGED <<clients, orders, inflight>>
       ELSE /\ orders' = [orders EXCEPT
                            ![work_order_id] =
                                crud_update_work_order(@, work_order_update)]
            /\ result' = MobileResponse("ok", "", mobile_number, work_order_id)
            /\ UNCHANGED <<clients, inflight>>

\* The mobile_number texts of a request: the two stored numbers, fragments
\* of the second and of both, a LIKE wildcard, and digits no number holds.
MobileInputs ==
    {MobileText(Mobile1), MobileText(Mobile2), <<"1", "1">>, <<"9", "8">>,
     <<"%">>, <<"5", "5">>}

MobileUpdates == {[status |-> "FINISHED"], [due_cleared |-> TRUE]}

\* GET /work-orders/{order_id} : the row as schemas.WorkOrder, with the
\* computed properties.
read_work_order(order_id) ==
    /\ result' =
          IF get_work_order(order_id) = None
          THEN Response("read_work_order", "NotFound", 0, "")
          ELSE [QueryResponse("read_work_order", order_id,
                              [row |-> orders[order_id],
                               is_overdue |-> is_overdue(orders[order_id]),
                               due_in_one_day |-> due_in_one_day(orders[order_id]),
                               is_active |-> is_active(orders[order_id]),
                               remaining_amount |-> remaining_amount(orders[order_id])])
                EXCEPT !.id = order_id]
    /\ UNCHANGED <<clients, orders, inflight>>

-----------------------------------------------------------------------------
\* Views: one request, a read or a write of a work order, served on a store
\* of two clients and up to MaxOrders work orders that differ in status,
\* expected delivery date (before, at and after Now), amounts, due_cleared,
\* client and texts.

Saree == <<"S", "a", "r", "e", "e">>
Kurta == <<"K", "u", "r", "t", "a">>
Urgent == <<"U", "r", "g", "e", "n", "t">>

ViewClients ==
    [i \in {1, 2} |->
        IF i = 1
        THEN [name |-> <<"P", "r", "i", "y", "a">>, mobile_number |-> Mobile1,
              email |-> None, address |-> None]
        ELSE [name |-> <<"M", "e", "e", "r", "a">>, mobile_number |-> Mobile2,
              email |-> None, address |-> None]]

\* <<advance_paid, total_estimate, actual_amount>>: nothing paid, an actual
\* amount above and below the estimate, an advance above the amount due, and
\* all zero.
AmountTriples ==
    {<<0, 2, 0>>, <<1, 2, 3>>, <<3, 2, 0>>, <<1, 4, 2>>, <<3, 4, 1>>, <<0, 0, 0>>}

\* <<description, notes>>
Texts ==
    {<<Some(Saree), None>>, <<None, Some(Urgent)>>,
     <<Some(Kurta), Some(<<"s", "a", "r", "i">>)>>}

\* The order fields of schemas.WorkOrderBase.
ViewData(status, date, amounts, due_cleared, text) ==
    [expected_delivery_date |-> date, description |-> text[1], notes |-> text[2],
     status |-> status, advance_paid |-> amounts[1], total_estimate |-> amounts[2],
     actual_amount |-> amounts[3], due_cleared |-> due_cleared]

\* Stored work orders that differ in status, date and client.
ViewRowsA ==
    {OrderRow(ViewData(s, d, <<1, 2, 0>>, FALSE, <<Some(Saree), None>>), c) :
        s \in OrderStatus, d \in {1, 2, 3}, c \in {1, 2}}

\* Stored work orders that differ in amounts, due_cleared and texts.
ViewRowsB ==
    {OrderRow(ViewData("STARTED", 3, a, dc, t), 2) :
        a \in AmountTriples, dc \in BOOLEAN, t \in Texts}

\* The other stored work orders.
ViewRowsC ==
    {OrderRow(ViewData(s, d, <<0, 2, 0>>, FALSE, <<Some(Kurta), None>>), 1) :
        s \in {"FINISHED", "DELIVERED_PAYMENT_PENDING"}, d \in {1, 3}}

ViewStores ==
    {EmptyTable}
    \cup UNION {{[o \in 1 .. k |-> IF o = 1 THEN r ELSE c[o]] :
                    r \in ViewRowsA \cup ViewRowsB, c \in [2 .. k -> ViewRowsC]} :
                k \in 1 .. MaxOrders}

InitView ==
    /\ clients = ViewClients
    /\ orders \in ViewStores
    /\ result = Response("startup", "ok", 0, "")
    /\ inflight = EmptyBag

\* schemas.WorkOrderCreate for a stored client
ViewCreates ==
    {[client_id |-> Some(1), client_name |-> None, client_mobile |-> None,
      client_email |-> None, client_address |-> None]
     @@ ViewData(s, d, a, FALSE, <<Some(Saree), None>>) :
        s \in OrderStatus, d \in {1, 3}, a \in AmountTriples}

\* schemas.WorkOrderUpdate, the fields set
ViewUpdates ==
    {[status |-> s] : s \in OrderStatus}
    \cup {[expected_delivery_date |-> d] : d \in {1, 3}}
    \cup {[advance_paid |-> 3], [actual_amount |-> 1], [total_estimate |-> 0],
          [due_cleared |-> TRUE]}
    \cup {[advance_paid |-> a[1], total_estimate |-> a[2], actual_amount |-> a[3]] :
            a \in AmountTriples}

NextView ==
    /\ result.op = "startup"
    /\ \/ \E w \in ViewCreates : create_work_order(w, "none")
       \/ \E o \in 1 .. MaxOrders + 1, u \in ViewUpdates : update_work_order(o, u)
       \/ \E o \in 1 .. MaxOrders + 1 : delete_work_order(o)
       \/ \E o \in 1 .. MaxOrders + 1 : read_work_order(o)
       \/ \E m \in MobileInputs, o \in 1 .. MaxOrders + 1, u \in MobileUpdates :
             update_work_order_by_mobile(m, o, u)
       \/ \E v \in StatusInputs : get_next_status_options_endpoint(v)
       \/ get_status_workflow_endpoint
       \/ \E v \in StatusInputs : validate_status_endpoint(v)
       \/ \E f \in WorkOrderFilters : filter_work_orders(f)
       \/ get_overdue_orders
       \/ \E i \in 1 .. MaxClients + 1 : get_client_summary(i)
       \/ \E sort_order \in SortOrders : get_priority_work_orders(sort_order)
       \/ \E start_date \in WindowDates, end_date \in WindowDates :
             get_dashboard_summary(start_date, end_date)
       \/ \E q \in Queries, st \in {None, Some("STARTED"), Some("Started")},
             limit \in {1, 20} : search_work_orders(q, st, limit)

SpecView == InitView /\ [][NextView]_vars

-----------------------------------------------------------------------------
\* Claims checked under SpecView.

\* C11: get_next_status_options is exactly the fixed successor table: Order
\* Placed -> [Started], Started -> [Finished], Finished -> [Delivered - Fully
\* Paid, Delivered -- Payment Pending], Delivered -- Payment Pending ->
\* [Delivered - Fully Paid], Delivered - Fully Paid -> [], and [] for every
\* input that is not one of the five status values.
C11_NextOptionsTable ==
    result.op = "get_next_status_options" =>
        result.body =
            CASE result.input = "Order Placed" -> <<"Started">>
              [] result.input = "Started" -> <<"Finished">>
              [] result.input = "Finished" ->
                    <<"Delivered - Fully Paid", "Delivered -- Payment Pending">>
              [] result.input = "Delivered -- Payment Pending" ->
                    <<"Delivered - Fully Paid">>
              [] OTHER -> <<>>

\* C11 witness: the options after the terminal status have been asked for.
C11_Witness ==
    /\ result.op = "get_next_status_options"
    /\ result.input = "Delivered - Fully Paid"
    /\ result.body = <<>>

ActiveStatuses == {"Order Placed", "Started", "Finished"}

\* C12 (as claimed): the workflow description's active_states, the status
\* validation's is_active flag and the work order's is_active attribute all
\* designate exactly Order Placed, Started and Finished.
C12_ActiveStatesAgree ==
    /\ result.op = "get_status_workflow" =>
          Range(result.body.active_states) = ActiveStatuses
    /\ result.op = "validate_status" /\ result.body.is_valid =>
          (result.body.is_active <=> result.input \in ActiveStatuses)
    /\ result.op = "read_work_order" /\ result.kind = "ok" =>
          (result.body.is_active <=>
              StatusValue(result.body.row.status) \in ActiveStatuses)

\* C12 (what the code does): the workflow description also lists Delivered --
\* Payment Pending as active; the other two agree on the three statuses.
C12_WorkflowListsPaymentPending ==
    /\ result.op = "get_status_workflow" =>
          Range(result.body.active_states)
              = ActiveStatuses \cup {"Delivered -- Payment Pending"}
    /\ result.op = "validate_status" /\ result.body.is_valid =>
          (result.body.is_active <=> result.input \in ActiveStatuses)
    /\ result.op = "read_work_order" /\ result.kind = "ok" =>
          (result.body.is_active <=>
              StatusValue(result.body.row.status) \in ActiveStatuses)

\* C13: in every reachable state, every work order whose status is one of
\* the two delivered statuses has is_overdue = false and is_active = false,
\* whatever its expected delivery date, in the store and in what a read of
\* the order returns.
C13_DeliveredNeitherOverdueNorActive ==
    /\ \A o \in DOMAIN orders :
          orders[o].status \in {"DELIVERED_FULLY_PAID", "DELIVERED_PAYMENT_PENDING"} =>
              ~is_overdue(orders[o]) /\ ~is_active(orders[o])
    /\ /\ result.op = "read_work_order" /\ result.kind = "ok"
       /\ result.body.row.status
             \in {"DELIVERED_FULLY_PAID", "DELIVERED_PAYMENT_PENDING"}
       => ~result.body.is_overdue /\ ~result.body.is_active

\* C13 witness: an update has set a delivered status on an order whose
\* expected delivery date is before Now.
C13_Witness ==
    /\ result.op = "update_work_order" /\ result.kind = "ok"
    /\ orders[result.id].updated_at = Some(Now)
    /\ orders[result.id].status = "DELIVERED_PAYMENT_PENDING"
    /\ orders[result.id].expected_delivery_date < Now

\* C14: in every reachable state every stored work order has
\* remaining_amount >= 0, for every combination of amounts create and update
\* accept, an advance larger than the amount due included.
C14_RemainingNonNegative ==
    /\ \A o \in DOMAIN orders : remaining_amount(orders[o]) >= 0
    /\ result.op = "read_work_order" /\ result.kind = "ok" =>
          result.body.remaining_amount >= 0

\* C14 witness: a create or an update has stored an advance larger than the
\* estimate and than the actual amount.
C14_Witness ==
    /\ result.op \in {"create_work_order", "update_work_order"}
    /\ result.kind = "ok"
    /\ orders[result.id].advance_paid > orders[result.id].total_estimate
    /\ orders[result.id].advance_paid > orders[result.id].actual_amount

\* max(0, x), written out.
AtLeastZero(x) == IF x < 0 THEN 0 ELSE x

\* C15: remaining_amount is max(0, actual_amount - advance_paid) when
\* actual_amount > 0 and max(0, total_estimate - advance_paid) when
\* actual_amount = 0: a nonzero actual amount takes precedence over the
\* estimate, also when it is the smaller of the two.
C15_RemainingAmount ==
    /\ \A o \in DOMAIN orders :
          remaining_amount(orders[o]) =
              IF orders[o].actual_amount > 0
              THEN AtLeastZero(orders[o].actual_amount - orders[o].advance_paid)
              ELSE AtLeastZero(orders[o].total_estimate - orders[o].advance_paid)
    /\ result.op = "read_work_order" /\ result.kind = "ok" =>
          result.body.remaining_amount =
              IF result.body.row.actual_amount > 0
              THEN AtLeastZero(result.body.row.actual_amount
                               - result.body.row.advance_paid)
              ELSE AtLeastZero(result.body.row.total_estimate
                               - result.body.row.advance_paid)

\* C15 witness: an order whose nonzero actual amount is below its estimate
\* has been read.
C15_Witness ==
    /\ result.op = "read_work_order" /\ result.kind = "ok"
    /\ result.body.row.actual_amount > 0
    /\ result.body.row.actual_amount < result.body.row.total_estimate
    /\ result.body.remaining_amount
          < result.body.row.total_estimate - result.body.row.advance_paid

\* C16: the filter with overdue_only = true and no other filter returns
\* exactly the stored work orders whose expected delivery date is strictly
\* before now and whose status is not a delivered status.
C16_OverdueOnlyFilter ==
    /\ result.op = "filter_work_orders"
    /\ result.input = [delivery_date |-> None, delivery_window_start |-> None,
                       delivery_window_end |-> None, overdue_only |-> TRUE,
                       status |-> None, client_id |-> None]
    => result.body =
          {o \in DOMAIN orders :
              /\ orders[o].expected_delivery_date < Now
              /\ orders[o].status
                    \notin {"DELIVERED_FULLY_PAID", "DELIVERED_PAYMENT_PENDING"}}

\* C16 witness: the overdue-only filter has returned some orders and left
\* out an undelivered order due exactly now.
C16_Witness ==
    /\ result.op = "filter_work_orders"
    /\ result.input = [delivery_date |-> None, delivery_window_start |-> None,
                       delivery_window_end |-> None, overdue_only |-> TRUE,
                       status |-> None, client_id |-> None]
    /\ result.body # {}
    /\ \E o \in DOMAIN orders \ result.body :
          orders[o].expected_delivery_date = Now /\ orders[o].status = "STARTED"

\* C17: for a fixed current time the three overdue views agree in every
\* reachable state: an order has is_overdue = true exactly when the overdue
\* list returns it, and the dashboard's overdue_work_orders is the number of
\* such orders.
C17_OverdueViewsAgree ==
    /\ \A o \in DOMAIN orders :
          is_overdue(orders[o]) <=> o \in get_overdue_work_orders
    /\ get_dashboard_stats.overdue_work_orders
          = Cardinality({o \in DOMAIN orders : is_overdue(orders[o])})
    /\ result.op = "get_overdue_orders" =>
          result.body = {o \in DOMAIN orders : is_overdue(orders[o])}
    /\ result.op = "get_dashboard_summary" =>
          result.body.overdue_work_orders
              = Cardinality({o \in DOMAIN orders : is_overdue(orders[o])})

\* C17 witness: an update has made an order overdue while another stored
\* order, delivered and due before now, is not.
C17_Witness ==
    /\ result.op = "update_work_order" /\ result.kind = "ok"
    /\ orders[result.id].updated_at = Some(Now)
    /\ is_overdue(orders[result.id])
    /\ \E o \in DOMAIN orders :
          orders[o].expected_delivery_date < Now /\ ~is_overdue(orders[o])

\* C18 (as claimed): the filter returns exactly the work orders that satisfy
\* every supplied filter, an omitted filter imposing no constraint; every
\* supplied client id, 0 included, restricts the result to the orders of
\* that client id.
C18_FilterConjunction ==
    result.op = "filter_work_orders" =>
        result.body =
            {o \in DOMAIN orders :
                /\ result.input.delivery_date # None =>
                      /\ orders[o].expected_delivery_date
                            >= StartOfDay(result.input.delivery_date[1])
                      /\ orders[o].expected_delivery_date
                            < StartOfDay(result.input.delivery_date[1]) + TicksPerDay
                /\ result.input.delivery_window_start # None =>
                      orders[o].expected_delivery_date
                          >= result.input.delivery_window_start[1]
                /\ result.input.delivery_window_end # None =>
                      orders[o].expected_delivery_date
                          <= result.input.delivery_window_end[1]
                /\ result.input.status # None =>
                      orders[o].status = result.input.status[1]
                /\ result.input.client_id # None =>
                      orders[o].client_id = result.input.client_id[1]
                /\ result.input.overdue_only => is_overdue(orders[o])}

\* C18 (what the code does): a client id of 0 is taken as no client filter;
\* every other supplied filter restricts the result.
C18_ZeroClientIdIgnored ==
    result.op = "filter_work_orders" =>
        result.body =
            {o \in DOMAIN orders :
                /\ result.input.delivery_date # None =>
                      /\ orders[o].expected_delivery_date
                            >= StartOfDay(result.input.delivery_date[1])
                      /\ orders[o].expected_delivery_date
                            < StartOfDay(result.input.delivery_date[1]) + TicksPerDay
                /\ result.input.delivery_window_start # None =>
                      orders[o].expected_delivery_date
                          >= result.input.delivery_window_start[1]
                /\ result.input.delivery_window_end # None =>
                      orders[o].expected_delivery_date
                          <= result.input.delivery_window_end[1]
                /\ result.input.status # None =>
                      orders[o].status = result.input.status[1]
                /\ result.input.client_id \notin {None, Some(0)} =>
                      orders[o].client_id = result.input.client_id[1]
                /\ result.input.overdue_only => is_overdue(orders[o])}

\* C19: the dashboard's pending_payments is the sum of remaining_amount over
\* exactly the stored work orders with due_cleared = false, whatever their
\* status, and its total_revenue is the sum of advance_paid over all stored
\* work orders, in every reachable state.
C19_DashboardSums ==
    /\ get_dashboard_stats.pending_payments
          = SumOver([o \in DOMAIN orders |-> remaining_amount(orders[o])],
                    {o \in DOMAIN orders : ~orders[o].due_cleared})
    /\ get_dashboard_stats.total_revenue
          = SumOver([o \in DOMAIN orders |-> orders[o].advance_paid], DOMAIN orders)
    /\ result.op = "get_dashboard_summary" =>
          /\ result.body.pending_payments
                = SumOver([o \in DOMAIN orders |-> remaining_amount(orders[o])],
                          {o \in DOMAIN orders : ~orders[o].due_cleared})
          /\ result.body.total_revenue
                = SumOver([o \in DOMAIN orders |-> orders[o].advance_paid],
                          DOMAIN orders)

\* C19 witness: the dashboard has been asked for on a store with a delivered
\* order whose dues are not cleared and an order with money remaining whose
\* dues are cleared.
C19_Witness ==
    /\ result.op = "get_dashboard_summary"
    /\ result.body.pending_payments > 0
    /\ result.body.total_revenue > 0
    /\ \E o \in DOMAIN orders :
          /\ orders[o].status = "DELIVERED_PAYMENT_PENDING"
          /\ ~orders[o].due_cleared /\ remaining_amount(orders[o]) > 0
    /\ \E o \in DOMAIN orders :
          orders[o].due_cleared /\ remaining_amount(orders[o]) > 0

\* C20 (as claimed): the free-text search for a term returns only orders
\* whose description or notes contain the term as a case-insensitive
\* substring.
C20_SearchOnlyDescriptionOrNotes ==
    result.op = "search_work_orders" /\ result.kind = "ok" =>
        \A o \in result.body :
            \E text \in {orders[o].description, orders[o].notes} \ {None} :
                \E k \in 1 .. Len(text[1]) :
                    /\ k + Len(result.input.query) - 1 <= Len(text[1])
                    /\ \A j \in 1 .. Len(result.input.query) :
                          LowerChar(text[1][k + j - 1])
                              = LowerChar(result.input.query[j])

\* C20 (what the code does): every order the search returns has a
\* description, notes, client name or client mobile number that the lowered
\* term, read as a LIKE pattern between two "%", matches.
C20_SearchLikeOfFourFields ==
    result.op = "search_work_orders" /\ result.kind = "ok" =>
        \A o \in result.body :
            \E text \in {orders[o].description, orders[o].notes,
                         Some(clients[orders[o].client_id].name),
                         Some(MobileText(clients[orders[o].client_id].mobile_number))}
                        \ {None} :
                Like(Lower(text[1]),
                     <<"%">> \o Lower(result.input.query) \o <<"%">>)

\* C20 (with the client's fields added to the claim): every order the search
\* returns has a description, notes, client name or client mobile number
\* that contains the term as a case-insensitive substring.  The two LIKE
\* wildcards, which no text contains, still return orders.
C20_SearchOnlyFourFieldsContain ==
    result.op = "search_work_orders" /\ result.kind = "ok" =>
        \A o \in result.body :
            \E text \in {orders[o].description, orders[o].notes,
                         Some(clients[orders[o].client_id].name),
                         Some(MobileText(clients[orders[o].client_id].mobile_number))}
                        \ {None} :
                \E k \in 1 .. Len(text[1]) :
                    /\ k + Len(result.input.query) - 1 <= Len(text[1])
                    /\ \A j \in 1 .. Len(result.input.query) :
                          LowerChar(text[1][k + j - 1])
                              = LowerChar(result.input.query[j])

\* C21 (as claimed): the mobile-scoped update modifies a work order only if
\* the order belongs to the client whose mobile number is the given text;
\* for every other text, a fragment of a client's number included, it
\* returns an error and changes nothing.
C21_MobileScopedUpdate ==
    [][result'.op = "update_work_order_by_mobile" =>
          LET m == result'.input[1]
              o == result'.input[2]
          IN \/ /\ o \in DOMAIN orders
                /\ orders[o].client_id \in DOMAIN clients
                /\ MobileText(clients[orders[o].client_id].mobile_number) = m
             \/ /\ result'.kind # "ok"
                /\ orders' = orders
                /\ clients' = clients]_vars

\* C21 (what the code does): the update is applied when the order belongs to
\* the first client whose mobile number contains the given text as a LIKE
\* pattern, and refused without any change otherwise.
C21_MobileFragmentAccepted ==
    [][result'.op = "update_work_order_by_mobile" =>
          LET m == result'.input[1]
              o == result'.input[2]
          IN IF /\ o \in DOMAIN orders
                /\ first_client_like(m) = Some(orders[o].client_id)
             THEN result'.kind = "ok" /\ clients' = clients
             ELSE /\ result'.kind # "ok"
                  /\ orders' = orders
                  /\ clients' = clients]_vars

-----------------------------------------------------------------------------
\* Concurrent updates of a work order (SpecRace).  The update handlers of
\* routers/search.py are plain functions, which the server runs on worker
\* threads, each with its own session: between a session's SELECT of the row
\* and its commit other requests run to completion.

\* An update in flight: the row as its session loaded it, and its payload.
UpdatePending(order_id, loaded, payload) ==
    [op |-> "update_work_order", order_id |-> order_id, loaded |-> loaded,
     payload |-> payload]

\* The session's flush: UPDATE work_orders SET the attributes whose value
\* differs from the loaded one, and updated_at; no statement when none does.
Flush(stored, loaded, object) ==
    IF object = loaded THEN stored
    ELSE [f \in DOMAIN stored |->
             IF f = "updated_at" THEN Some(Now)
             ELSE IF object[f] # loaded[f] THEN object[f]
             ELSE stored[f]]

\* crud.update_work_order up to its SELECT: db_work_order is loaded.
begin_update_work_order(order_id, work_order_update) ==
    /\ CanAccept
    /\ IF get_work_order(order_id) = None
       THEN /\ result' = Response("update_work_order", "NotFound", 0, "")
            /\ UNCHANGED <<clients, orders, inflight>>
       ELSE /\ inflight' = Added(UpdatePending(order_id, orders[order_id],
                                               work_order_update))
            /\ result' = Response("begin_update_work_order", "ok", order_id, "")
            /\ UNCHANGED <<clients, orders>>

\* crud.update_work_order from its setattr loop to db.commit().
commit_update_work_order(r) ==
    /\ r \in BagToSet(inflight)
    /\ r.op = "update_work_order"
    /\ orders' = [orders EXCEPT
                    ![r.order_id] = Flush(@, r.loaded, SetAttrs(r.loaded, r.payload))]
    /\ inflight' = Removed(r)
    /\ result' = Response("update_work_order", "ok", r.order_id,
                          IF SetAttrs(r.loaded, r.payload) = r.loaded
                          THEN "no_statement" ELSE "UPDATE")
    /\ UNCHANGED clients

\* The payloads of the racing requests: two statuses and a cleared due.
RaceUpdates ==
    {[status |-> "ORDER_PLACED"], [status |-> "STARTED"], [due_cleared |-> TRUE]}

\* One stored work order of client 1, in any status.
InitRace ==
    /\ clients = SeedClients
    /\ orders \in {Insert(EmptyTable, 1, [OrderRow(OrderData1, 1) EXCEPT !.status = s]) :
                      s \in OrderStatus}
    /\ result = Response("startup", "ok", 0, "")
    /\ inflight = EmptyBag

NextRace ==
    \/ \E o \in 1 .. MaxOrders, u \in RaceUpdates : begin_update_work_order(o, u)
    \/ \E r \in BagToSet(inflight) : commit_update_work_order(r)

SpecRace == InitRace /\ [][NextRace]_vars

\* C22 (as claimed): concurrent updates of one work order are
\* last-write-wins: every update succeeds, and a field it supplies holds,
\* once it has committed, the value it supplied.
C22_LastWriteWins ==
    [][\A r \in BagToSet(inflight) :
          commit_update_work_order(r) =>
              /\ result'.kind = "ok"
              /\ \A f \in DOMAIN r.payload :
                    orders'[r.order_id][f] = r.payload[f]]_vars

\* C22 (what the code does): every update succeeds; a supplied field is
\* written when its value differs from the one the session loaded, and is
\* otherwise left as another request stored it.
C22_ChangedFieldsWritten ==
    [][\A r \in BagToSet(inflight) :
          commit_update_work_order(r) =>
              /\ result'.kind = "ok"
              /\ \A f \in DOMAIN r.loaded \ {"updated_at"} :
                    orders'[r.order_id][f] =
                        IF f \in DOMAIN r.payload /\ r.payload[f] # r.loaded[f]
                        THEN r.payload[f]
                        ELSE orders[r.order_id][f]]_vars

-----------------------------------------------------------------------------
\* Reads among the writes (SpecRead): the requests of Spec, and
\* GET /work-orders/{order_id}.

NextRead ==
    \/ Next
    \/ \E o \in 1 .. MaxOrders + 1 : read_work_order(o)

SpecRead == Init /\ [][NextRead]_vars

\* A request on work order id o: a read, an update or a delete.
OnWorkOrder(o) ==
    \/ read_work_order(o)
    \/ \E u \in WorkOrderUpdates : update_work_order(o, u)
    \/ delete_work_order(o)

\* The last request was a successful delete of work order o.
DeletedOk(o) ==
    result.op = "delete_work_order" /\ result.kind = "ok" /\ result.id = o

\* C23 (as claimed): a read, update or delete of an id that is not stored
\* yields NotFound and changes no client and no work order; a successful
\* delete_work_order(id) leaves the clients as they were, and the id stays
\* not stored, hence NotFound, afterwards: the request that follows the
\* delete, whatever it is, does not store a work order under that id.
C23_NotFoundAfterDelete ==
    [][\A o \in 1 .. MaxOrders + 1 :
          /\ (OnWorkOrder(o) /\ o \notin DOMAIN orders) =>
                /\ result'.kind = "NotFound"
                /\ orders' = orders
                /\ clients' = clients
          /\ (delete_work_order(o) /\ o \in DOMAIN orders) =>
                /\ o \notin DOMAIN orders'
                /\ clients' = clients
          /\ DeletedOk(o) => o \notin DOMAIN orders']_vars

\* C23 (what the code does): an id that is not stored yields NotFound
\* without any change, and a successful delete removes the order and keeps
\* every client; the store gives a later work order the deleted id again
\* when no stored id is larger.
C23_NotFoundWhileAbsent ==
    [][\A o \in 1 .. MaxOrders + 1 :
          /\ (OnWorkOrder(o) /\ o \notin DOMAIN orders) =>
                /\ result'.kind = "NotFound"
                /\ orders' = orders
                /\ clients' = clients
          /\ (OnWorkOrder(o) /\ o \in DOMAIN orders) => result'.kind = "ok"
          /\ (delete_work_order(o) /\ o \in DOMAIN orders) =>
                /\ orders' = Remove(orders, {o})
                /\ clients' = clients
          /\ (\E w \in WorkOrderCreates : create_work_order(w, "none")) =>
                \A n \in DOMAIN orders' \ DOMAIN orders : n = NextId(orders)]_vars

-----------------------------------------------------------------------------
\* The work orders whose expected delivery date lies in a delivery window;
\* an omitted end of the window is open.
InWindow(start_date, end_date) ==
    {o \in DOMAIN orders :
        /\ start_date # None => start_date[1] <= orders[o].expected_delivery_date
        /\ end_date # None => orders[o].expected_delivery_date <= end_date[1]}

\* C24 (as claimed): the dashboard summary called with a delivery window
\* reports counts and sums over only the work orders whose expected delivery
\* date lies in the window, and without a window over all stored orders.
C24_DashboardWindow ==
    result.op = "get_dashboard_summary" =>
        LET W == InWindow(result.input.start_date, result.input.end_date)
        IN /\ result.body.total_work_orders = Cardinality(W)
           /\ result.body.active_work_orders
                 = Cardinality({o \in W : is_active(orders[o])})
           /\ result.body.completed_orders
                 = Cardinality({o \in W : ~is_active(orders[o])})
           /\ result.body.overdue_work_orders
                 = Cardinality({o \in W : is_overdue(orders[o])})
           /\ result.body.orders_due_in_one_day
                 = Cardinality({o \in W : due_in_one_day(orders[o])})
           /\ result.body.total_revenue
                 = SumOver([o \in DOMAIN orders |-> orders[o].advance_paid], W)
           /\ result.body.pending_payments
                 = SumOver([o \in DOMAIN orders |-> remaining_amount(orders[o])],
                           {o \in W : ~orders[o].due_cleared})

\* C24 (what the code does): the summary is computed over all stored work
\* orders, with a window or without one.
C24_DashboardIgnoresWindow ==
    result.op = "get_dashboard_summary" =>
        /\ result.body = get_dashboard_stats
        /\ result.body.total_work_orders = Cardinality(DOMAIN orders)
        /\ result.body.total_revenue
              = SumOver([o \in DOMAIN orders |-> orders[o].advance_paid],
                        DOMAIN orders)

-----------------------------------------------------------------------------
\* C25: the per-client summary is computed over exactly that client's stored
\* work orders: total_orders is their number, active_orders plus
\* completed_orders is total_orders, and total_amount_due is the sum of
\* remaining_amount over that client's orders with due_cleared = false;
\* the orders of other clients contribute nothing.
C25_ClientSummaryScoped ==
    (result.op = "get_client_summary" /\ result.kind = "ok") =>
        LET own == {o \in DOMAIN orders : orders[o].client_id = result.input}
        IN /\ result.body.work_orders = own
           /\ result.body.total_orders = Cardinality(own)
           /\ result.body.active_orders + result.body.completed_orders
                 = result.body.total_orders
           /\ result.body.active_orders
                 = Cardinality({o \in own : orders[o].status \notin Delivered})
           /\ result.body.total_amount_due
                 = SumOver([o \in DOMAIN orders |-> remaining_amount(orders[o])],
                           {o \in own : ~orders[o].due_cleared})

\* C25 witness: the summary of a client with an order of its own has been
\* served on a store where another client's order has money remaining and
\* its dues not cleared.
C25_Witness ==
    /\ result.op = "get_client_summary"
    /\ result.kind = "ok"
    /\ result.body.total_orders > 0
    /\ result.body.total_amount_due > 0
    /\ \E o \in DOMAIN orders :
          /\ orders[o].client_id # result.input
          /\ ~orders[o].due_cleared
          /\ remaining_amount(orders[o]) > 0

-----------------------------------------------------------------------------
\* C26: the priority listing returns every stored work order exactly once,
\* with expected delivery dates non-decreasing along the list for "asc" and
\* non-increasing for "desc".
C26_PriorityListSorted ==
    (result.op = "get_priority_work_orders" /\ result.kind = "ok") =>
        LET l == result.body.work_orders
        IN /\ Range(l) = DOMAIN orders
           /\ Len(l) = Cardinality(DOMAIN orders)
           /\ result.body.total_count = Cardinality(DOMAIN orders)
           /\ \A i, j \in DOMAIN l :
                 i < j =>
                     IF result.input = <<"a", "s", "c">>
                     THEN orders[l[i]].expected_delivery_date
                              <= orders[l[j]].expected_delivery_date
                     ELSE orders[l[i]].expected_delivery_date
                              >= orders[l[j]].expected_delivery_date

\* C26 witness: a descending listing of two work orders has been served, the
\* one with the larger id, due later, first.
C26_Witness ==
    /\ result.op = "get_priority_work_orders"
    /\ result.kind = "ok"
    /\ result.input = <<"d", "e", "s", "c">>
    /\ Len(result.body.work_orders) = 2
    /\ result.body.work_orders[1] > result.body.work_orders[2]
    /\ orders[result.body.work_orders[1]].expected_delivery_date
          > orders[result.body.work_orders[2]].expected_delivery_date

-----------------------------------------------------------------------------
\* C27: creating a work order with a client_id that matches no stored client
\* and with both client name and client mobile supplied succeeds: the order
\* references the client that holds the mobile number, the stored one if
\* there is one (no client is added), a newly created one otherwise; the
\* supplied client_id plays no part.
C27_FallbackToMobile ==
    [][\A w \in WorkOrderCreates :
          (/\ create_work_order(w, "none")
           /\ w.client_id # None
           /\ w.client_id[1] \notin DOMAIN clients
           /\ w.client_name # None
           /\ w.client_mobile # None) =>
              /\ result'.kind = "ok"
              /\ result'.id \in DOMAIN orders' \ DOMAIN orders
              /\ orders'[result'.id].client_id \in DOMAIN clients'
              /\ clients'[orders'[result'.id].client_id].mobile_number
                    = w.client_mobile[1]
              /\ IF \E i \in DOMAIN clients :
                       clients[i].mobile_number = w.client_mobile[1]
                 THEN /\ clients' = clients
                      /\ orders'[result'.id].client_id \in DOMAIN clients
                 ELSE /\ orders'[result'.id].client_id \notin DOMAIN clients
                      /\ DOMAIN clients'
                            = DOMAIN clients \cup {orders'[result'.id].client_id}
                      /\ \A i \in DOMAIN clients : clients'[i] = clients[i]]_vars

\* C27 witness: an order has been created through the fallback for a client
\* id that is not stored, on the stored client that holds the mobile number.
C27_Witness ==
    /\ result.op = "create_work_order"
    /\ result.kind = "ok"
    /\ result.via = "fallback_reused"
    /\ result.id \in DOMAIN orders
    /\ orders[result.id].client_id \in DOMAIN clients

-----------------------------------------------------------------------------
\* Following the workflow (SpecFlow): a caller moves a stored work order to
\* one of the statuses that GET /status/next-options lists after its stored
\* status, with PUT /search/work-orders/{id}/status, and goes on while there
\* is an option.

advance(work_order_id) ==
    /\ work_order_id \in DOMAIN orders
    /\ \E new_status \in Range(get_next_status_options(
                                  StatusValue(orders[work_order_id].status))) :
          update_work_order_status(work_order_id, new_status)

NextFlow == \E o \in OrderIds : advance(o)

SpecFlow ==
    InitView /\ [][NextFlow]_vars /\ \A o \in OrderIds : WF_vars(advance(o))

\* The five status values.
StatusValues == {StatusValue(s) : s \in OrderStatus}

\* The statuses that n steps along the successor lists lead to from the
\* statuses of S.
RECURSIVE After(_, _, _)
After(successors, S, n) ==
    IF n = 0 THEN S
    ELSE After(successors, UNION {Range(successors[v]) : v \in S}, n - 1)

\* A workflow graph leads to the terminal status: there is no path with as
\* many steps as there are statuses (hence no cycle, and no path of more than
\* 4 steps), 'Delivered - Fully Paid' is the only status without successors,
\* and it is reached from every status within 4 steps.
LeadsToTerminal(successors) ==
    \A v \in StatusValues :
        /\ Range(successors[v]) \subseteq StatusValues
        /\ After(successors, {v}, Cardinality(StatusValues)) = {}
        /\ successors[v] = <<>> <=> v = "Delivered - Fully Paid"
        /\ \E n \in 0 .. 4 : "Delivered - Fully Paid" \in After(successors, {v}, n)

\* C28: the workflow graph always leads to the terminal status: following
\* the next options from any of the five statuses reaches 'Delivered - Fully
\* Paid' after at most 4 steps, the graph has no cycle, and 'Delivered -
\* Fully Paid' is the only status without successors; this holds of
\* get_next_status_options and of the transitions of the workflow
\* description, and every work order that is moved along the options ends
\* fully paid.
C28_WorkflowLeadsToTerminal ==
    /\ [](/\ LeadsToTerminal([v \in StatusValues |-> get_next_status_options(v)])
          /\ LeadsToTerminal(get_status_workflow.transitions))
    /\ \A o \in OrderIds :
          <>[](o \in DOMAIN orders => orders[o].status = "DELIVERED_FULLY_PAID")

\* C28 witness: a work order has been moved from 'Delivered -- Payment
\* Pending' to the terminal status, which lists no option.
C28_Witness ==
    /\ result.op = "update_work_order_status"
    /\ result.kind = "ok"
    /\ result.id \in DOMAIN orders
    /\ orders[result.id].status = "DELIVERED_FULLY_PAID"
    /\ orders[result.id].updated_at = Some(Now)
    /\ get_next_status_options(StatusValue(orders[result.id].status)) = <<>>

-----------------------------------------------------------------------------
\* C29: in every reachable state the dashboard counts partition the orders:
\* active_work_orders + completed_orders = total_work_orders, and
\* total_work_orders is the number of stored work orders.
C29_DashboardCountsPartition ==
    /\ get_dashboard_stats.active_work_orders
          + get_dashboard_stats.completed_orders
          = get_dashboard_stats.total_work_orders
    /\ get_dashboard_stats.total_work_orders = Cardinality(DOMAIN orders)
    /\ result.op = "get_dashboard_summary" =>
          /\ result.body.active_work_orders + result.body.completed_orders
                = result.body.total_work_orders
          /\ result.body.total_work_orders = Cardinality(DOMAIN orders)

\* C29 witness: the dashboard has been served on a store that holds an active
\* and a delivered, not fully paid, work order.
C29_Witness ==
    /\ result.op = "get_dashboard_summary"
    /\ result.body.active_work_orders > 0
    /\ result.body.completed_orders > 0
    /\ \E o \in DOMAIN orders : orders[o].status = "DELIVERED_PAYMENT_PENDING"

\* C30: for one current time no work order is both overdue and due in one
\* day, and every overdue or due-in-one-day order is active; hence in every
\* reachable state the dashboard's overdue_work_orders plus
\* orders_due_in_one_day is at most active_work_orders.
C30_OverdueAndDueDisjoint ==
    /\ \A o \in DOMAIN orders :
          /\ ~(is_overdue(orders[o]) /\ due_in_one_day(orders[o]))
          /\ (is_overdue(orders[o]) \/ due_in_one_day(orders[o]))
                => is_active(orders[o])
    /\ get_overdue_work_orders \cap get_orders_due_in_one_day = {}
    /\ get_dashboard_stats.overdue_work_orders
          + get_dashboard_stats.orders_due_in_one_day
          <= get_dashboard_stats.active_work_orders
    /\ result.op = "get_dashboard_summary" =>
          result.body.overdue_work_orders + result.body.orders_due_in_one_day
              <= result.body.active_work_orders

\* C30 witness: the dashboard has been served on a store with an overdue
\* order and an order due exactly now, and nothing else active.
C30_Witness ==
    /\ result.op = "get_dashboard_summary"
    /\ result.body.overdue_work_orders > 0
    /\ result.body.orders_due_in_one_day > 0
    /\ result.body.overdue_work_orders + result.body.orders_due_in_one_day
          = result.body.active_work_orders
    /\ \E o \in DOMAIN orders :
          orders[o].expected_delivery_date = Now /\ due_in_one_day(orders[o])

=============================================================================
